---- MODULE Spec2Model ----
(***************************************************************************)
(* SpareBuffer (src/src/buffer.rs): a view over a Vec<T> that hands out    *)
(* the vector's spare capacity as a writable slice (allocate_spare) and    *)
(* later extends the vector's length into it (commit, commit_unchecked).   *)
(*                                                                         *)
(* The vector is modelled by its storage cells `mem` (Len(mem) is the      *)
(* capacity) and its length `len`.  usize is WordBits wide.  A panic is    *)
(* recorded as the result of the call; the state it leaves behind is the   *)
(* state the unwinding leaves, so a process that aborts on panic is the    *)
(* prefix of a behaviour that ends at that call.                           *)
(***************************************************************************)
EXTENDS Integers, Sequences, FiniteSets, TLC

\* ------------------------------------------------------------------ bounds
WordBits == 4          \* width of usize in the model
MaxCap   == 3          \* largest capacity the allocator can provide
MaxLimit == 3          \* largest limit a view is constructed with
MaxArg   == 3          \* largest ordinary argument of a call (usize::MAX is tried too)
ChunkSize == 1         \* chunk_size of the reader loop, scaled to the capacities

UsizeMax == 2^WordBits - 1
None     == 0          \* Option<NonZeroUsize>::None (the niche value 0)
Elems    == {1, 2}     \* element values of T
Lengths  == 1..MaxArg              \* the `length` of allocate_spare (NonZeroUsize)
Additionals == 0..MaxArg \cup {UsizeMax}  \* the `additional` of a commit

VARIABLES
    mem,          \* buffer: the storage cells of the Vec, Len(mem) = capacity
    len,          \* buffer: the Vec's length
    limit,        \* SpareBuffer::limit (None or a positive number)
    allocated,    \* SpareBuffer::allocated
    ub,           \* TRUE once commit_unchecked has broken set_len's contract
    spare,        \* length of the slice allocate_spare returned, 0 once it is dead
    filled,       \* how many leading elements of that slice the caller has written
    last,         \* the last allocate/commit call: arguments, result, state before
    len0,         \* the vector's length when the view was constructed
    validSeq,     \* only allocate_spare(n)/commit(k), k <= n, total <= limit so far
    sumK,         \* sum of the `additional` committed by such a sequence (else 0)
    usedUnchecked, \* commit_unchecked has been called
    pc,           \* the reader loop's position ("view": no reader, calls come freely)
    stream,       \* the reader loop: elements left in the file
    total         \* the reader loop: sum of the counts read so far

view == <<mem, len, limit, allocated, ub, spare, filled, last, len0, validSeq, sumK, usedUnchecked>>
reader == <<pc, stream, total>>
vars == <<view, reader>>

\* ------------------------------------------------------ pure helpers (Vec)
Min(a, b) == IF a <= b THEN a ELSE b

\* Vec::capacity()
Capacity == Len(mem)

\* SpareBuffer::data(): the first len cells (cells past the capacity are not
\* storage of the vector, so a length past the capacity exposes fewer cells).
Data == SubSeq(mem, 1, Min(len, Capacity))

\* Vec::spare_capacity_mut().len()
SpareLen(length, capacity) == capacity - length

\* usize::checked_add: None (here -1) on overflow
Overflow == -1
CheckedAdd(a, b) == IF a + b > UsizeMax THEN Overflow ELSE a + b

\* variant: the limit unwrapped with its default, 0, instead of usize::MAX
LimitOrDefault(lim) == lim

\* self.limit.map_or(usize::MAX, NonZeroUsize::get)
LimitOrMax(lim) == IF lim = None THEN UsizeMax ELSE lim

\* variant: `additional` taken for the total capacity wanted
ReserveCapsTotal(length, capacity, additional) ==
    IF capacity >= additional
    THEN {capacity}
    ELSE additional..MaxCap

\* variant: the reservation refused when it would pass the limit
ReserveCapsWithinLimit(length, capacity, additional) ==
    IF limit # None /\ length + additional > limit
    THEN {}
    ELSE IF capacity - length >= additional
    THEN {capacity}
    ELSE (length + additional)..MaxCap

\* Vec::reserve(additional): the capacities the vector may have afterwards.
\* Nothing happens when the spare capacity suffices; otherwise the vector
\* regrows to any capacity >= length + additional the allocator can provide
\* ("may reserve more space").  The empty set: reserve panics or aborts.
ReserveCaps(length, capacity, additional) ==
    IF capacity - length >= additional
    THEN {capacity}
    ELSE (length + additional)..MaxCap

\* variant: a fresh allocation, the old cells not copied over
RegrownFresh(capacity) == [1..capacity -> Elems]

\* the storage after regrowing to `capacity`: the length cells are kept, the
\* rest is whatever the allocator hands out
Regrown(capacity) ==
    {m \in [1..capacity -> Elems] : \A i \in 1..Min(len, Capacity) : m[i] = mem[i]}

\* the cells of the spare capacity, as the slice of allocate_spare shows them
Window == SubSeq(mem, Min(len, Capacity) + 1, Capacity)

\* the record of a call: its arguments and result, the call before it (req:
\* the length that call asked for, when it was an allocate_spare), and the
\* state the call found (cap, window, filled: what a commit found); why: the
\* message of a commit's panic
Call(op, arg, res) ==
    [op |-> op, arg |-> arg, res |-> res, why |-> "", prev |-> last.op,
     req |-> IF last.op = "allocate_spare" THEN last.arg ELSE 0,
     len |-> len, data |-> Data, allocated |-> allocated,
     cap |-> IF op = "allocate_spare" THEN 0 ELSE Capacity,
     window |-> IF op = "allocate_spare" THEN <<>> ELSE Window,
     filled |-> IF op = "allocate_spare" THEN 0 ELSE filled]

\* ------------------------------------------------------------------- Init
\* SpareBuffer::from over any vector and any limit
From ==
    /\ \E c \in 0..MaxCap : mem \in [1..c -> Elems]
    /\ len \in 0..Len(mem)
    /\ limit \in {None} \cup 1..MaxLimit
    /\ allocated = FALSE
    /\ ub = FALSE
    /\ spare = 0
    /\ filled = 0
    /\ last = [op |-> "from", arg |-> limit, res |-> "ok", why |-> "",
               prev |-> "none", req |-> 0,
               len |-> len, data |-> SubSeq(mem, 1, len), allocated |-> FALSE,
               cap |-> Len(mem), window |-> <<>>, filled |-> 0]
    /\ len0 = len
    /\ sumK = 0
    /\ validSeq = TRUE
    /\ usedUnchecked = FALSE

Init ==
    /\ From
    /\ pc = "view"
    /\ stream = 0
    /\ total = 0

\* ---------------------------------------------------------- allocate_spare
AllocateSpare(length) ==
    /\ ~ub
    /\ LET caps == ReserveCaps(len, Capacity, length) IN
       IF caps = {}
       THEN \* reserve panics ("capacity overflow") before line 86
            /\ last' = Call("allocate_spare", length, "panic")
            /\ validSeq' = FALSE
            /\ sumK' = 0
            /\ spare' = 0
            /\ filled' = 0
            /\ UNCHANGED <<mem, len, limit, allocated, ub, len0, usedUnchecked>>
       ELSE \E c \in caps :
            /\ mem' \in (IF c = Capacity THEN {mem} ELSE Regrown(c))
            /\ allocated' = TRUE
            /\ spare' = SpareLen(len, c)
            /\ filled' = 0
            /\ last' = Call("allocate_spare", length, "ok")
            /\ UNCHANGED <<len, limit, ub, len0, sumK, validSeq, usedUnchecked>>

\* ------------------------------------------------- the caller fills the slice
\* variant: the slice starts one cell too low, on the last committed element
WriteSpareOneBelow(i, v) ==
    /\ ~ub
    /\ i \in 1..spare
    /\ mem' = [mem EXCEPT ![len + i - 1] = v]
    /\ filled' = IF i = filled + 1 THEN i ELSE filled
    /\ UNCHANGED <<len, limit, allocated, ub, spare, last, len0, sumK, validSeq, usedUnchecked>>

\* spare[i] = v, while the slice borrowed from allocate_spare is alive, that
\* is before the next call on the view (index 1 is the slice's element 0);
\* `filled` counts the leading elements written, as a reader fills a buffer
WriteSpare(i, v) ==
    /\ ~ub
    /\ i \in 1..spare
    /\ mem' = [mem EXCEPT ![len + i] = v]
    /\ filled' = IF i = filled + 1 THEN i ELSE filled
    /\ UNCHANGED <<len, limit, allocated, ub, spare, last, len0, sumK, validSeq, usedUnchecked>>

\* ------------------------------------------------------------------ commit
\* variant: the assertion left out
AssertAllocatedSkipped(flag) == TRUE

\* assert!(std::mem::replace(&mut self.allocated, false), ..): the flag tested
AssertAllocated(flag) == flag

\* variant: the flag read but not cleared
ReplacedKeepsOld(old, new) == old

\* .. and the value mem::replace leaves in self.allocated
Replaced(old, new) == new

\* variant: the new length is `additional` alone
NewLengthForgetsOld(length, additional) == CheckedAdd(0, additional)

\* variant: the sum taken in machine words, without the overflow check
NewLengthWrapping(length, additional) == (length + additional) % (UsizeMax + 1)

\* self.buffer.len().checked_add(additional)
NewLength(length, additional) == CheckedAdd(length, additional)

\* variant: the assertion left out
FitsCapacityUnchecked(new_length, capacity) == TRUE

\* variant: the bound off by one
FitsCapacityOffByOne(new_length, capacity) == new_length <= capacity + 1

\* assert!(new_length <= self.buffer.capacity(), ..)
FitsCapacity(new_length, capacity) == new_length <= capacity

\* variant: < for <=
WithinLimitStrict(new_length, lim) == new_length < LimitOrMax(lim)

\* variant: the limit taken one too high
WithinLimitOffByOne(new_length, lim) == new_length <= LimitOrMax(lim) + 1

\* variant: the limit not consulted
WithinLimitIgnored(new_length, lim) == TRUE

\* new_length <= self.limit.map_or(usize::MAX, NonZeroUsize::get)
WithinLimit(new_length, lim) == new_length <= LimitOrMax(lim)

\* the commit is one the sequences of claim C1 are made of
ValidCommit(additional) ==
    /\ last.op = "allocate_spare" /\ last.res = "ok"
    /\ additional <= last.arg
    /\ (limit = None \/ len + additional <= limit)

Commit(additional) ==
    /\ ~ub
    /\ validSeq' = (validSeq /\ ValidCommit(additional))
    /\ sumK' = IF validSeq' THEN sumK + additional ELSE 0
    /\ allocated' = Replaced(allocated, FALSE)
    /\ spare' = 0
    /\ filled' = 0
    /\ UNCHANGED <<mem, limit, ub, len0, usedUnchecked>>
    /\ IF ~AssertAllocated(allocated)
       THEN /\ last' = [Call("commit", additional, "panic")
                          EXCEPT !.why = "No spare buffer allocated!"]
            /\ UNCHANGED len
       ELSE IF additional > 0
       THEN LET new_length == NewLength(len, additional) IN
            IF new_length = Overflow
            THEN /\ last' = [Call("commit", additional, "panic")
                               EXCEPT !.why = "Numerical overflow! (new_length)"]
                 /\ UNCHANGED len
            ELSE IF ~FitsCapacity(new_length, Capacity)
            THEN /\ last' = [Call("commit", additional, "panic")
                               EXCEPT !.why = "Commit size exceeds available capacity!"]
                 /\ UNCHANGED len
            ELSE IF WithinLimit(new_length, limit)
            THEN /\ len' = new_length          \* set_len(new_length)
                 /\ last' = Call("commit", additional, "ok")
            ELSE \* Err(ErrorKind::OutOfMemory)
                 /\ last' = Call("commit", additional, "err")
                 /\ UNCHANGED len
       ELSE /\ last' = Call("commit", additional, "ok")
            /\ UNCHANGED len

\* -------------------------------------------------------- commit_unchecked
\* self.buffer.len() + additional: wraps, or panics when the build checks
\* overflow; set_len past the capacity breaks set_len's contract (ub)
\* variant: the length set to `additional` alone
UncheckedLengthForgetsOld(length, additional) == additional % (UsizeMax + 1)

\* self.buffer.len() + additional, in machine words
UncheckedLength(length, additional) == (length + additional) % (UsizeMax + 1)

CommitUnchecked(additional) ==
    /\ ~ub
    /\ allocated' = FALSE
    /\ usedUnchecked' = TRUE
    /\ validSeq' = FALSE
    /\ sumK' = 0
    /\ spare' = 0
    /\ filled' = 0
    /\ UNCHANGED <<mem, limit, len0>>
    /\ IF additional > 0
       THEN \/ /\ len + additional > UsizeMax
               /\ last' = Call("commit_unchecked", additional, "panic")
               /\ UNCHANGED <<len, ub>>
            \/ /\ len' = UncheckedLength(len, additional)
               /\ ub' = (len' > Capacity)
               /\ last' = Call("commit_unchecked", additional, "ok")
       ELSE /\ last' = Call("commit_unchecked", additional, "ok")
            /\ UNCHANGED <<len, ub>>

Next ==
    \/ \E n \in Lengths : AllocateSpare(n) /\ UNCHANGED reader
    \/ \E i \in 1..MaxCap, v \in Elems : WriteSpare(i, v) /\ UNCHANGED reader
    \/ \E k \in Additionals : Commit(k) /\ UNCHANGED reader
    \/ \E k \in Additionals : CommitUnchecked(k) /\ UNCHANGED reader

Spec == Init /\ [][Next]_vars

\* ------------------------------------------------------------ reader loop
\* examples/read_file.rs: loop { allocate_spare(chunk_size); count =
\* file.read(spare); if count > 0 { commit(count) } else { break } } over a
\* file of `stream` elements that fits within the limit; the allocator can
\* serve every reservation of the loop.
InitReader ==
    /\ From
    /\ pc = "allocate"
    /\ stream \in 0..MaxCap
    /\ total = 0
    /\ limit = None \/ len + stream <= limit
    /\ len + stream + ChunkSize <= MaxCap

\* let spare = buffer.allocate_spare(chunk_size);
ReaderAllocate ==
    /\ pc = "allocate"
    /\ AllocateSpare(ChunkSize)
    /\ pc' = IF last'.res = "ok" THEN "read" ELSE "failed"
    /\ UNCHANGED <<stream, total>>

\* let count = file.read(spare): 0 at the end of the file, else some
\* 1..min(spare.len(), what is left) elements written at the slice's front
ReaderRead ==
    /\ pc = "read"
    /\ IF stream = 0
       THEN /\ pc' = "done"
            /\ UNCHANGED <<view, stream, total>>
       ELSE \E count \in 1..Min(spare, stream) : \E bytes \in [1..count -> Elems] :
            /\ mem' = [i \in 1..Capacity |->
                          IF i \in (len + 1)..(len + count) THEN bytes[i - len] ELSE mem[i]]
            /\ filled' = count
            /\ stream' = stream - count
            /\ total' = total + count
            /\ pc' = "commit"
            /\ UNCHANGED <<len, limit, allocated, ub, spare, last, len0, sumK, validSeq, usedUnchecked>>

\* buffer.commit(count).expect("Failed to commit!");
ReaderCommit ==
    /\ pc = "commit"
    /\ Commit(filled)
    /\ pc' = IF last'.res = "ok" THEN "allocate" ELSE "failed"
    /\ UNCHANGED <<stream, total>>

NextReader ==
    \/ ReaderAllocate
    \/ ReaderRead
    \/ ReaderCommit

\* the loop is a sequential program: it keeps taking its next step
SpecReader == InitReader /\ [][NextReader]_vars /\ WF_vars(NextReader)

\* ------------------------------------------------------------------ claims
\* a commit that found a window pending and was asked for no more than the
\* window holds (capacity - length)
CommitInWindow ==
    /\ last.op = "commit"
    /\ last.allocated
    /\ last.arg <= last.cap - last.len

\* C1 (as amended): over a sequence of allocate_spare(n)/commit(k) with each
\* k <= the n of the preceding allocate_spare and the length staying within
\* the limit, len() is the length the vector had at construction plus the sum
\* of the committed k, and data() has exactly len() elements after every step.
C1_LenIsInitialPlusSum ==
    validSeq => (len = len0 + sumK /\ Len(Data) = len)

\* C1 witness: a second commit of such a sequence over a non-empty vector
C1_Witness ==
    /\ validSeq /\ last.op = "commit" /\ last.res = "ok"
    /\ len0 > 0 /\ last.arg > 0 /\ sumK > last.arg

\* C1 as stated: after the commits of such a sequence len() equals the sum of
\* the committed k alone, whatever vector the view was constructed over.
C1_LenIsSum ==
    (validSeq /\ last.op = "commit") => (len = sumK /\ Len(Data) = len)

\* C2: a commit(k) that returns Ok appends the first k elements of the
\* window: len() grows by k, data()[L + i] is what window position i held
\* (what the caller wrote there), and data() below L is as before.
C2_CommitAppendsWindowPrefix ==
    (last.op = "commit" /\ last.res = "ok") =>
        /\ len = last.len + last.arg
        /\ Len(Data) = len
        /\ \A i \in 1..last.arg : Data[last.len + i] = last.window[i]
        /\ \A j \in 1..last.len : Data[j] = last.data[j]

\* C2 witness: two different values written by the caller are committed
\* behind an element that was there before
C2_Witness ==
    /\ last.op = "commit" /\ last.res = "ok"
    /\ last.len > 0 /\ last.arg = 2 /\ last.filled >= 2
    /\ last.window[1] # last.window[2]

\* C3: an allocate_spare(n) that returns hands out a slice of at least n
\* elements, which is the whole spare capacity (capacity - length), and
\* leaves capacity >= length + n; in whichever state it was called.
C3_WindowIsWholeSpare ==
    (last.op = "allocate_spare" /\ last.res = "ok") =>
        /\ spare >= last.arg
        /\ spare = Capacity - len
        /\ Capacity >= len + last.arg

\* C3 witness: called with a window already pending, over a non-empty
\* vector with a limit, it regrows and returns more than was asked for
C3_Witness ==
    /\ last.op = "allocate_spare" /\ last.res = "ok"
    /\ last.allocated /\ len > 0 /\ limit # None
    /\ spare > last.arg

\* C4 (as amended): with a limit L, a commit(k) with a window pending and
\* k <= the window size fails with the capacity-exceeded error exactly when
\* k > 0 and length + k > L, and the length is unchanged by the failure.
C4_ErrIffPositiveAndOverLimit ==
    (CommitInWindow /\ limit # None) =>
        /\ (last.res = "err") <=> (last.arg > 0 /\ last.len + last.arg > limit)
        /\ (last.res = "err") => (len = last.len)

\* C4 witness: the failure, over a vector that was within its limit
C4_Witness ==
    /\ CommitInWindow /\ limit # None
    /\ last.res = "err" /\ last.len > 0 /\ last.len <= limit

\* C4 as stated: .. fails exactly when length + k > L, for every k >= 0.
C4_ErrIffOverLimit ==
    (CommitInWindow /\ limit # None) =>
        /\ (last.res = "err") <=> (last.len + last.arg > limit)
        /\ (last.res = "err") => (len = last.len)

\* C5: with no limit, a commit(k) with a window pending returns Ok for every
\* k up to the size of the window, also for k above the n asked for.
C5_NoLimitNeverFails ==
    (CommitInWindow /\ limit = None) => last.res = "ok"

\* C5 witness: more committed than allocate_spare was asked for
C5_Witness ==
    /\ CommitInWindow /\ limit = None
    /\ last.prev = "allocate_spare" /\ last.arg > last.req
    /\ len = last.len + last.arg

\* C6: a commit that fails with capacity-exceeded leaves length, capacity and
\* committed elements as they were and the window consumed (allocated is
\* false), and a commit issued next, without an allocate_spare, panics.
C6_ErrKeepsArrayConsumesWindow ==
    /\ []((last.op = "commit" /\ last.res = "err") =>
            /\ len = last.len
            /\ Capacity = last.cap
            /\ Data = last.data
            /\ ~allocated)
    /\ [][(last.op = "commit" /\ last.res = "err" /\ last'.op = "commit")
            => last'.res = "panic"]_vars

\* C6 witness: the state a failed commit leaves, over a non-empty vector
C6_Witness ==
    /\ last.op = "commit" /\ last.res = "err"
    /\ last.allocated /\ ~allocated /\ len > 0 /\ Data = last.data

\* C7: a commit not directly preceded, among the allocate/commit calls, by an
\* allocate_spare panics; so every commit that returns follows one.
C7_CommitNeedsAllocate ==
    (last.op = "commit" /\ last.prev # "allocate_spare") => last.res = "panic"

\* C7 witness: commit(0) panics right after a commit_unchecked
C7_Witness ==
    /\ last.op = "commit" /\ last.res = "panic"
    /\ last.prev = "commit_unchecked" /\ last.arg = 0

\* C8: a commit(k) with a window pending and k above the window's size
\* (capacity - length) panics and leaves the length alone, with or without a
\* limit, also when length + k exceeds the limit.
C8_BeyondWindowPanics ==
    (last.op = "commit" /\ last.allocated /\ last.arg > last.cap - last.len) =>
        (last.res = "panic" /\ len = last.len)

\* C8 witness: k is past the window and past the limit, without overflow
C8_Witness ==
    /\ last.op = "commit" /\ last.allocated /\ last.arg > last.cap - last.len
    /\ limit # None /\ last.len + last.arg > limit
    /\ last.len + last.arg <= UsizeMax

\* C9 (as amended): when a limit is set, the vector was no longer than the
\* limit at construction and commit_unchecked has not been called, the
\* length does not exceed the limit.
C9_LenWithinLimitChecked ==
    (limit # None /\ len0 <= limit /\ ~usedUnchecked) => len <= limit

\* C9 witness: checked commits have filled the vector up to its limit
C9_Witness ==
    /\ limit # None /\ len0 < limit /\ ~usedUnchecked
    /\ last.op = "commit" /\ last.res = "ok" /\ len = limit /\ len < Capacity

\* C9 as stated: when a limit is set the length never exceeds it, in any
\* state reached through from, allocate_spare, commit and commit_unchecked.
C9_LenWithinLimit ==
    limit # None => len <= limit

\* C10: through from, allocate_spare and commit the length never exceeds
\* the capacity.
C10_LenWithinCapacity ==
    ~usedUnchecked => len <= Capacity

\* C10 witness: a commit has taken the whole window
C10_Witness ==
    /\ ~usedUnchecked /\ last.op = "commit" /\ last.res = "ok"
    /\ last.arg > 0 /\ len = Capacity

\* C11: allocated is false after from, true after every allocate_spare that
\* returns (from Idle or from Allocated), false after every commit that
\* returns (Ok or capacity-exceeded) and after every commit_unchecked; so
\* after a call that returned it is true exactly when that call was an
\* allocate_spare.
C11_PendingIffLastWasAllocate ==
    /\ last.op = "from" => ~allocated
    /\ last.op = "commit_unchecked" => ~allocated
    /\ last.res # "panic" => (allocated <=> last.op = "allocate_spare")

\* C11 witness: allocate_spare called again with a window still pending
C11_Witness ==
    /\ last.op = "allocate_spare" /\ last.res = "ok"
    /\ last.prev = "allocate_spare" /\ last.allocated /\ allocated

\* C12 (as amended): a commit that panics leaves the length as it was and
\* allocated false: unchanged when no window was pending, cleared when one
\* was (k past the window, or overflow).
C12_PanicKeepsLenClearsPending ==
    (last.op = "commit" /\ last.res = "panic") =>
        (len = last.len /\ ~allocated)

\* C12 witness: the panic of a commit that found a window pending
C12_Witness ==
    /\ last.op = "commit" /\ last.res = "panic"
    /\ last.allocated /\ ~allocated /\ last.arg > last.cap - last.len

\* C12 as stated: at the panic of a commit, allocated and the length are
\* what they were before the call.
C12_PanicKeepsState ==
    (last.op = "commit" /\ last.res = "panic") =>
        (allocated = last.allocated /\ len = last.len)

\* C15: commit(0) with a window pending returns Ok, clears allocated and
\* leaves length, capacity and contents alone, whatever the limit and the
\* length; commit(0) with no window pending panics.
C15_CommitZero ==
    (last.op = "commit" /\ last.arg = 0) =>
        IF last.allocated
        THEN /\ last.res = "ok"
             /\ ~allocated
             /\ len = last.len
             /\ Capacity = last.cap
             /\ Data = last.data
        ELSE last.res = "panic"

\* C15 witness: commit(0) returns Ok over a vector already past its limit
C15_Witness ==
    /\ last.op = "commit" /\ last.arg = 0 /\ last.res = "ok"
    /\ limit # None /\ last.len > limit /\ last.prev = "allocate_spare"

\* C19: over a vector no longer than the limit at construction, and with
\* allocate_spare and commit alone, the length stays within the limit; and
\* a commit fails with capacity-exceeded only for k > 0.
C19_CheckedStaysWithinLimit ==
    /\ (limit # None /\ len0 <= limit /\ ~usedUnchecked) => len <= limit
    /\ (last.op = "commit" /\ last.res = "err") => last.arg > 0

\* C19 witness: such a vector is full to its limit and a commit has failed
C19_Witness ==
    /\ limit # None /\ len0 <= limit /\ ~usedUnchecked
    /\ last.op = "commit" /\ last.res = "err" /\ len = limit /\ len > len0

\* C20: allocate_spare does not consult the limit: it fails only when the
\* allocator cannot provide length + n, and when it returns the window is
\* >= n also where length + n > limit, so the capacity may pass the limit.
C20_AllocateIgnoresLimit ==
    (last.op = "allocate_spare" /\ limit # None) =>
        /\ last.res = "panic" => len + last.arg > MaxCap
        /\ last.res = "ok" => (spare >= last.arg /\ Capacity >= len + last.arg)

\* C20 witness: a window that reaches past the limit
C20_Witness ==
    /\ last.op = "allocate_spare" /\ last.res = "ok"
    /\ limit # None /\ len + last.arg > limit /\ Capacity > limit

\* a call that found a window pending, was asked for no more than the window
\* holds and stays within the limit: a commit there returns Ok
WouldCommitOk ==
    /\ last.allocated
    /\ last.arg <= last.cap - last.len
    /\ (limit = None \/ last.arg = 0 \/ last.len + last.arg <= limit)

\* C13: where commit(k) returns Ok, commit_unchecked(k) does what commit(k)
\* does: both leave length = old length + k, the old contents followed by
\* the first k window cells, the same capacity and allocated false.  And
\* commit_unchecked sets the length with no limit and no pending check.
C13_UncheckedAsCommit ==
    /\ (last.op \in {"commit", "commit_unchecked"} /\ WouldCommitOk) =>
          /\ last.res = "ok"
          /\ len = last.len + last.arg
          /\ Capacity = last.cap
          /\ Data = last.data \o SubSeq(last.window, 1, last.arg)
          /\ ~allocated
          /\ ~ub
    /\ (last.op = "commit_unchecked" /\ last.res = "ok") =>
          /\ len = (last.len + last.arg) % (UsizeMax + 1)
          /\ ~allocated

\* C13 witness: commit_unchecked appends two cells where commit would
C13_Witness ==
    /\ last.op = "commit_unchecked" /\ WouldCommitOk
    /\ last.arg = 2 /\ last.len > 0 /\ limit # None /\ last.filled >= 2

\* C16: in machine words, a commit(k) with a window pending and length + k
\* above usize::MAX panics with the overflow message (the overflow is found
\* before the capacity assertion and the limit test) and the length is not
\* set to the wrapped sum.
C16_OverflowPanics ==
    (last.op = "commit" /\ last.allocated /\ last.len + last.arg > UsizeMax) =>
        /\ last.res = "panic"
        /\ last.why = "Numerical overflow! (new_length)"
        /\ len = last.len
        /\ len # (last.len + last.arg) % (UsizeMax + 1)

\* C16 witness: the wrapped sum would have passed the capacity assertion
\* and the limit test
C16_Witness ==
    /\ last.op = "commit" /\ last.allocated /\ last.len + last.arg > UsizeMax
    /\ limit # None
    /\ (last.len + last.arg) % (UsizeMax + 1) <= Min(last.cap, limit)

\* C14: a call of allocate_spare, and every write of the caller into the
\* slice it returned, leaves len(), limit() and every element of data() as
\* they were: no window element shows in data() before a commit.
C14_SpareNotVisible ==
    [][last'.op = "allocate_spare" =>
          (len' = len /\ limit' = limit /\ Data' = Data)]_vars

\* C14 witness: the caller has written behind the last committed element a
\* value that differs from it
C14_Witness ==
    /\ last.op = "allocate_spare" /\ last.res = "ok"
    /\ len > 0 /\ filled >= 1 /\ mem[len + 1] # mem[len]
    /\ Data = last.data

\* C18: the vector is append-only through the view: in every step but a
\* commit_unchecked whose sum overflows, the length does not decrease, the
\* capacity does not decrease and no element below the length changes.
C18_AppendOnly ==
    [][~(last'.op = "commit_unchecked" /\ last'.len + last'.arg > UsizeMax) =>
          /\ len' >= len
          /\ Capacity' >= Capacity
          /\ \A i \in 1..Min(len, Capacity) : mem'[i] = mem[i]]_vars

\* C18 witness: the vector has grown over its first elements by a commit
\* and a commit_unchecked
C18_Witness ==
    /\ last.op = "commit_unchecked" /\ last.res = "ok" /\ ~ub
    /\ last.prev = "allocate_spare" /\ len0 > 0 /\ last.len > len0 /\ len > last.len

\* C17: the reader loop over a finite stream that fits within the limit
\* never panics and never gets capacity-exceeded, comes to its end, ends on
\* the zero-count read without a commit (allocated is still true), and ends
\* with length = initial length + the sum of the counts read.
C17_ReaderLoop ==
    /\ [](pc # "failed" /\ last.res = "ok")
    /\ [](pc = "done" =>
            /\ len = len0 + total
            /\ stream = 0
            /\ allocated
            /\ last.op = "allocate_spare")
    /\ <>(pc = "done")

\* C17 witness: the loop has ended after two reads of one chunk each that
\* filled the vector to its limit
C17_Witness ==
    /\ pc = "done" /\ validSeq /\ sumK = 2 * ChunkSize /\ total = sumK
    /\ len = limit /\ allocated
====
